---- MODULE Spec2Model ----
(***************************************************************************)
(* State-machine model of src/src/main.js: the page with a repository URL  *)
(* field, a "connect" button and a "generate documentation" button, the    *)
(* two asynchronous flows behind the buttons, and the source file selector *)
(* (getMainSourceFiles) the generate flow runs.                            *)
(*                                                                         *)
(* JavaScript strings are TLA+ strings; substring tests, suffix tests,     *)
(* lower-casing and the URL regular expression are computed character by   *)
(* character with Len and SubSeq.  An await is a state: a flow that awaits  *)
(* has one outstanding request, and the action that settles the request    *)
(* runs the flow's code up to its next await or to its end.                *)
(***************************************************************************)
EXTENDS Integers, Sequences, FiniteSets, TLC

\* ------------------------------------------------------------------------
\* Bounds of the model
\* ------------------------------------------------------------------------

\* flows, connect and generate together, that may be in flight at once
MaxInFlight == 2

\* ------------------------------------------------------------------------
\* Strings
\* ------------------------------------------------------------------------

Min(a, b) == IF a <= b THEN a ELSE b

\* s[i] as a one-character string
CharAt(s, i) == SubSeq(s, i, i)

\* String.prototype.endsWith
EndsWith(s, suffix) ==
  /\ Len(suffix) <= Len(s)
  /\ SubSeq(s, Len(s) - Len(suffix) + 1, Len(s)) = suffix

\* String.prototype.includes
Includes(s, sub) ==
  \E i \in 1..(Len(s) - Len(sub) + 1) : SubSeq(s, i, i + Len(sub) - 1) = sub

\* lower-casing of one character
LowerChar(c) ==
  CASE c = "A" -> "a" [] c = "B" -> "b" [] c = "C" -> "c" [] c = "D" -> "d"
    [] c = "E" -> "e" [] c = "F" -> "f" [] c = "G" -> "g" [] c = "H" -> "h"
    [] c = "I" -> "i" [] c = "J" -> "j" [] c = "K" -> "k" [] c = "L" -> "l"
    [] c = "M" -> "m" [] c = "N" -> "n" [] c = "O" -> "o" [] c = "P" -> "p"
    [] c = "Q" -> "q" [] c = "R" -> "r" [] c = "S" -> "s" [] c = "T" -> "t"
    [] c = "U" -> "u" [] c = "V" -> "v" [] c = "W" -> "w" [] c = "X" -> "x"
    [] c = "Y" -> "y" [] c = "Z" -> "z" [] OTHER -> c

\* the lower-cased characters of s from index i on
RECURSIVE LowerFrom(_, _)
LowerFrom(s, i) ==
  IF i > Len(s) THEN ""
  ELSE LowerChar(CharAt(s, i)) \o LowerFrom(s, i + 1)

\* String.prototype.toLowerCase
ToLowerCase(s) == LowerFrom(s, 1)

\* ------------------------------------------------------------------------
\* connectRepository: the URL regular expression
\* ------------------------------------------------------------------------

\* the literal prefix of /github\.com\/([^/]+)\/([^/]+)/
RepoUrlPrefix == "github.com/"

\* first index >= k that is past the end of s or holds a "/": the end of the
\* greedy run [^/]+ that starts at k
RECURSIVE RunEnd(_, _)
RunEnd(s, k) ==
  IF k > Len(s) \/ CharAt(s, k) = "/" THEN k ELSE RunEnd(s, k + 1)

\* the regular expression matches with its first character at index i
MatchesAt(s, i) ==
  LET o == i + Len(RepoUrlPrefix)
      e == RunEnd(s, o)
  IN  /\ i + Len(RepoUrlPrefix) - 1 <= Len(s)
      /\ SubSeq(s, i, i + Len(RepoUrlPrefix) - 1) = RepoUrlPrefix
      /\ e > o
      /\ e <= Len(s)
      /\ RunEnd(s, e + 1) > e + 1

NoMatch == [found |-> FALSE, owner |-> "", repo |-> ""]

\* repoUrl.match(/github\.com\/([^/]+)\/([^/]+)/): the leftmost match
RepoUrlMatch(s) ==
  LET starts == {i \in 1..Len(s) : MatchesAt(s, i)}
  IN  IF starts = {} THEN NoMatch
      ELSE LET i == CHOOSE j \in starts : \A k \in starts : j <= k
               o == i + Len(RepoUrlPrefix)
               e == RunEnd(s, o)
           IN  [found |-> TRUE,
                owner |-> SubSeq(s, o, e - 1),
                repo  |-> SubSeq(s, e + 1, RunEnd(s, e + 1) - 1)]

\* ------------------------------------------------------------------------
\* getMainSourceFiles: admission, ranking, truncation
\* ------------------------------------------------------------------------

\* the condition without its test on '.config.'
IsSourceFileWithConfig(name) ==
  /\ \/ EndsWith(name, ".js")
     \/ EndsWith(name, ".ts")
     \/ EndsWith(name, ".jsx")
     \/ EndsWith(name, ".tsx")
  /\ ~Includes(name, ".test.")
  /\ ~Includes(name, ".spec.")

\* the condition on item.name in getFilesFromDirectory
IsSourceFile(name) ==
  /\ \/ EndsWith(name, ".js")
     \/ EndsWith(name, ".ts")
     \/ EndsWith(name, ".jsx")
     \/ EndsWith(name, ".tsx")
  /\ ~Includes(name, ".test.")
  /\ ~Includes(name, ".spec.")
  /\ ~Includes(name, ".config.")

\* const priority = ['index', 'main', 'app']
priority == <<"index", "main", "app">>

\* priority.findIndex(p => name.includes(p)), zero-based, -1 when none
FindPriority(name) ==
  LET hits == UNION {{k \in 1..Len(priority) : Includes(n, priority[k])} : n \in {name}}
  IN  IF hits = {} THEN -1
      ELSE (CHOOSE k \in hits : \A h \in hits : k <= h) - 1

\* the comparator with its first branch returning bPriority - aPriority
CompareFilesReversed(a, b) ==
  LET aPriority == FindPriority(ToLowerCase(a.path))
      bPriority == FindPriority(ToLowerCase(b.path))
  IN  IF aPriority # -1 /\ bPriority # -1 THEN bPriority - aPriority
      ELSE IF aPriority # -1 THEN -1
      ELSE IF bPriority # -1 THEN 1
      ELSE 0

\* the comparator handed to files.sort
CompareFiles(a, b) ==
  LET aPriority == FindPriority(ToLowerCase(a.path))
      bPriority == FindPriority(ToLowerCase(b.path))
  IN  IF aPriority # -1 /\ bPriority # -1 THEN aPriority - bPriority
      ELSE IF aPriority # -1 THEN -1
      ELSE IF bPriority # -1 THEN 1
      ELSE 0

\* The recursive operators below take their arguments through a bound
\* variable (v \in {argument}), so that an argument is evaluated once however
\* often the body uses it.

\* insertion of x into the sorted sequence s, after every element that does
\* not compare greater than x (Array.prototype.sort is stable)
RECURSIVE InsertSorted(_, _)
InsertSorted(s, x) ==
  CHOOSE r \in {IF Len(v[1]) = 0 THEN << v[2] >>
                ELSE IF CompareFiles(v[1][Len(v[1])], v[2]) > 0
                  THEN InsertSorted(SubSeq(v[1], 1, Len(v[1]) - 1), v[2])
                         \o << v[1][Len(v[1])] >>
                ELSE v[1] \o << v[2] >>
                  : v \in {<< s, x >>}} : TRUE

\* files.sort((a, b) => ...)
RECURSIVE SortFiles(_)
SortFiles(files) ==
  CHOOSE r \in {IF Len(v) = 0 THEN v
                ELSE InsertSorted(SortFiles(SubSeq(v, 1, Len(v) - 1)), v[Len(v)])
                  : v \in {files}} : TRUE

\* the count in files.slice(0, 5)
MaxFiles == 5

\* files.slice(0): the truncation left out
SliceFilesUntruncated(files) == files

\* files.slice(0, 5)
SliceFiles(files) == SubSeq(files, 1, Min(MaxFiles, Len(files)))

\* ------------------------------------------------------------------------
\* The remote services
\* ------------------------------------------------------------------------

\* a value that is null in the program
Null == "(null)"

\* one entry of a directory listing of the contents API
Item(dir, name, type) == [name |-> name, path |-> dir \o "/" \o name, type |-> type]

\* the base64 envelope of a file body, and atob on it
Btoa(text) == <<"base64", text>>
Atob(content) == content[2]

\* the body the contents API serves for a path
RemoteContent(path) == Btoa("body of " \o path)

\* the tree of the specification's example
TreeExample ==
  "src" :> << Item("src", "utils.js", "file"), Item("src", "index.js", "file"),
              Item("src", "app.jsx", "file"), Item("src", "main.ts", "file"),
              Item("src", "x.test.js", "file"), Item("src", "y.config.js", "file") >>

\* more than five eligible files, a subdirectory, entries that are not eligible
TreeMany ==
  "src" :> << Item("src", "a.js", "file"), Item("src", "lib", "dir"),
              Item("src", "main.js", "file"), Item("src", "d.js", "file"),
              Item("src", "e.jsx", "file"), Item("src", "f.ts", "file"),
              Item("src", "README.md", "file"), Item("src", "link", "symlink") >>
  @@ "src/lib" :> << Item("src/lib", "b.ts", "file"), Item("src/lib", "Index.tsx", "file"),
                     Item("src/lib", "c.spec.ts", "file") >>

\* nested directories, a fragment in a directory name, upper-case names
TreeNested ==
  "src" :> << Item("src", "app", "dir"), Item("src", "App.JS", "file"),
              Item("src", "zeta.ts", "file"), Item("src", "empty", "dir") >>
  @@ "src/app" :> << Item("src/app", "util.js", "file"), Item("src/app", "deep", "dir"),
                     Item("src/app", "index.json", "file") >>
  @@ "src/app/deep" :> << Item("src/app/deep", "main.test.js", "file"),
                          Item("src/app/deep", "Maintain.tsx", "file") >>
  @@ "src/empty" :> << >>

\* a small tree for the page as a whole
TreeSmall ==
  "src" :> << Item("src", "lib", "dir"), Item("src", "vite.config.js", "file") >>
  @@ "src/lib" :> << Item("src/lib", "main.js", "file") >>

\* the paths of a tree for which the selector may issue a request
RECURSIVE ItemPaths(_)
ItemPaths(listing) ==
  IF Len(listing) = 0 THEN {}
  ELSE {listing[1].path} \cup ItemPaths(SubSeq(listing, 2, Len(listing)))

TreePaths(tree) == DOMAIN tree \cup UNION {ItemPaths(tree[d]) : d \in DOMAIN tree}

\* A repository as the services answer for it: the listing of each directory
\* under 'src', the paths whose contents request fails (a missing file, a
\* broken link, a directory that may not be read) and whether the body of
\* package.json is JSON.
Repository(tree, broken, manifestParses) ==
  [listing |-> tree, broken |-> broken, manifestParses |-> manifestParses]

\* the repositories the selector is run on: every pattern of failing requests
\* over three trees, and every pattern of failures of the two optional files
SelectorRepositories ==
  UNION {{Repository(tree, broken, TRUE) : broken \in SUBSET TreePaths(tree)}
           : tree \in {TreeExample, TreeMany, TreeNested}}
  \cup {Repository(TreeSmall, broken, parses) :
          broken \in SUBSET {"package.json", "README.md"}, parses \in BOOLEAN}

\* the repositories the page as a whole is run on
PageRepositories ==
  {Repository(TreeSmall, broken, TRUE) :
     broken \in {{}, {"src/lib/main.js"}, {"src", "package.json"}}}

\* identities a previous session may have left in localStorage
SavedRepos == {[owner |-> "octo", repo |-> "demo"]}

\* what the user may type into the URL field
PageUrls == {"", "https://github.com/acme/web", "github.com/acme"}

\* what the user may type when the connect flow is taken alone
ConnectUrls ==
  { "", "https://github.com/acme/web", "github.com/acme/web",
    "https://github.com/acme/web/tree/main", "https://github.com/acme/web/",
    "https://github.com/acme", "https://github.com/acme/", "https://github.com//web",
    "acme/web", "https://gitlab.com/acme/web",
    "https://github.com/acme/web?tab=readme",
    "https://example.org/github.com/acme/web" }

\* ------------------------------------------------------------------------
\* State
\* ------------------------------------------------------------------------

VARIABLES
  githubToken,      \* import.meta.env.VITE_GITHUB_TOKEN is set
  openaiKey,        \* import.meta.env.VITE_OPENAI_API_KEY is set
  remote,           \* the repository the source-control service answers for
  currentRepo,      \* localStorage item 'currentRepo'
  repoUrlInput,     \* [value, disabled]
  connectRepoBtn,   \* [disabled, innerHTML]
  generateDocBtn,   \* [disabled, innerHTML]
  loadingHidden,    \* loadingIndicator carries the class 'hidden'
  conn,             \* the connect flows, by slot
  gen               \* the generate flows, by slot

vars == << githubToken, openaiKey, remote, currentRepo, repoUrlInput, connectRepoBtn,
           generateDocBtn, loadingHidden, conn, gen >>

env == << githubToken, openaiKey, remote >>

\* localStorage.getItem on an absent key
NoItem == << >>

\* JSON.stringify({ owner, repo }) and JSON.parse of it
JsonStringify(id) == << id.owner, id.repo >>
JsonParse(item) == [owner |-> item[1], repo |-> item[2]]

\* a request as the flow issued it, with its outcome once settled
Request(fn, owner, repo, path) ==
  [fn |-> fn, owner |-> owner, repo |-> repo, path |-> path, result |-> "pending"]

\* the outcome of the request a flow awaits
Settled(reqs, result) == [reqs EXCEPT ![Len(reqs)].result = result]

IdleConn ==
  [pc |-> "idle", url |-> "", owner |-> "", repo |-> "", reqs |-> << >>,
   error |-> "", cards |-> << >>]

IdleGen ==
  [pc |-> "idle", owner |-> "", repo |-> "",
   description |-> Null, packageJson |-> Null, readme |-> Null,
   stack |-> << >>, returned |-> FALSE, walked |-> << >>, sorted |-> << >>,
   selected |-> << >>, reqs |-> << >>, completion |-> Null, error |-> "",
   cards |-> << >>, documentation |-> Null]

\* The record of a flow that has ended stays in its slot for one step, so that
\* the state right after the end of a flow shows how it ended; every step
\* clears the records of the flows that ended before it.
Reap(flows, idle) ==
  [i \in DOMAIN flows |-> IF flows[i].pc = "done" THEN idle ELSE flows[i]]

\* the number of flows in flight among the flows of one kind
InFlight(flows) == Cardinality({i \in DOMAIN flows : flows[i].pc \notin {"idle", "done"}})

\* the slot a new flow takes: the lowest one with no flow in flight, as long
\* as the flows in flight are fewer than MaxInFlight
Free(flows, i) ==
  /\ InFlight(conn) + InFlight(gen) < MaxInFlight
  /\ flows[i].pc \in {"idle", "done"}
  /\ \A j \in 1..(i - 1) : flows[j].pc \notin {"idle", "done"}

\* the message of the error axios rejects with
AxiosError(status) ==
  IF status = 0 THEN "Network Error"
  ELSE "Request failed with status code " \o ToString(status)

\* the statuses of a request for the repository itself (0: no response);
\* without a credential the service answers 401
GithubStatuses == IF githubToken THEN {200, 401, 404, 0} ELSE {401}

\* the status of a contents request for a path
ContentsStatus(path) ==
  IF ~githubToken THEN 401 ELSE IF path \in remote.broken THEN 404 ELSE 200

\* the generate button is left enabled whatever localStorage holds
DisabledAtLoadNever(savedRepo) == FALSE

\* generateDocBtn.disabled after the initialisation: true, and set to false
\* when localStorage holds a saved repository
DisabledAtLoad(savedRepo) == savedRepo = NoItem

\* the page as the script leaves it after loading
InitPage ==
  /\ githubToken \in BOOLEAN
  /\ openaiKey \in BOOLEAN
  /\ currentRepo \in {NoItem} \cup {JsonStringify(id) : id \in SavedRepos}
  /\ repoUrlInput =
       [value |-> IF currentRepo = NoItem THEN ""
                  ELSE "https://github.com/" \o JsonParse(currentRepo).owner
                         \o "/" \o JsonParse(currentRepo).repo,
        disabled |-> FALSE]
  /\ connectRepoBtn =
       [disabled |-> FALSE,
        innerHTML |-> IF currentRepo = NoItem THEN "Connect Repository" ELSE "Connected"]
  /\ generateDocBtn =
       [disabled |-> DisabledAtLoad(currentRepo), innerHTML |-> "Generate Documentation"]
  /\ loadingHidden = TRUE
  /\ conn = [c \in 1..MaxInFlight |-> IdleConn]
  /\ gen = [g \in 1..MaxInFlight |-> IdleGen]

Init == InitPage /\ remote \in PageRepositories

\* ------------------------------------------------------------------------
\* showStatusCard
\* ------------------------------------------------------------------------

\* a call of showStatusCard, recorded in the flow that makes it
showStatusCard(message, type) == [message |-> message, type |-> type]

\* ------------------------------------------------------------------------
\* connectRepository
\* ------------------------------------------------------------------------

\* the message the catch block of connectRepository builds: status is the
\* status of error.response (0 when the error carries no response), message
\* is error.message
ConnectErrorMessage(status, message) ==
  "Error connecting to repository. " \o
    (IF status = 401
       THEN "Invalid or missing GitHub token. Please check your configuration."
     ELSE IF status = 404 THEN "Repository not found or private."
     ELSE IF message # "" THEN message
     ELSE "Please check the URL and try again.")

\* the item is never written
StoredAfterConnectNever(status, owner, repo, item) == item

\* the item is written whatever the status
StoredAfterConnectAlways(status, owner, repo, item) ==
  JsonStringify([owner |-> owner, repo |-> repo])

\* the localStorage item after the response to the existence request
StoredAfterConnect(status, owner, repo, item) ==
  IF status = 200 THEN JsonStringify([owner |-> owner, repo |-> repo]) ELSE item

\* the catch block of connectRepository, for the flow record f of slot c
ConnectCatch(c, f, status, message) ==
  LET text == ConnectErrorMessage(status, message)
  IN  /\ conn' = [Reap(conn, IdleConn) EXCEPT ![c] =
                    [f EXCEPT !.pc = "done", !.error = text,
                              !.cards = Append(@, showStatusCard(text, "error"))]]
      /\ connectRepoBtn' = [disabled |-> FALSE, innerHTML |-> "Connect Repository"]
      /\ repoUrlInput' = [repoUrlInput EXCEPT !.disabled = FALSE]
      /\ UNCHANGED generateDocBtn

\* a click on the connect button: connectRepository up to its await
ConnectClick(c) ==
  /\ ~connectRepoBtn.disabled
  /\ Free(conn, c)
  /\ LET repoUrl == repoUrlInput.value
         match == RepoUrlMatch(repoUrl)
         f == [IdleConn EXCEPT !.url = repoUrl]
     IN  IF ~githubToken
           THEN ConnectCatch(c, f, 0, "GitHub token is not configured")
         ELSE IF repoUrl = ""
           THEN ConnectCatch(c, f, 0, "Please enter a repository URL")
         ELSE IF ~match.found
           THEN ConnectCatch(c, f, 0, "Invalid GitHub repository URL")
         ELSE
           /\ conn' = [Reap(conn, IdleConn) EXCEPT ![c] =
                         [f EXCEPT !.pc = "await", !.owner = match.owner,
                                   !.repo = match.repo,
                                   !.reqs = << Request("repos", match.owner, match.repo, "") >>]]
           /\ repoUrlInput' = [repoUrlInput EXCEPT !.disabled = TRUE]
           /\ connectRepoBtn' = [disabled |-> TRUE, innerHTML |-> "Connecting..."]
           /\ UNCHANGED generateDocBtn
  /\ gen' = Reap(gen, IdleGen)
  /\ UNCHANGED << env, currentRepo, loadingHidden >>

\* the existence request of the flow in slot c settles with the status
ConnectSettle(c, status) ==
  /\ conn[c].pc = "await"
  /\ currentRepo' = StoredAfterConnect(status, conn[c].owner, conn[c].repo, currentRepo)
  /\ LET f == [conn[c] EXCEPT
                 !.reqs = Settled(@, IF status = 200 THEN "ok" ELSE "error")]
     IN  IF status = 200
           THEN /\ connectRepoBtn' = [connectRepoBtn EXCEPT !.innerHTML = "Connected"]
                /\ generateDocBtn' = [generateDocBtn EXCEPT !.disabled = FALSE]
                /\ conn' = [Reap(conn, IdleConn) EXCEPT ![c] =
                              [f EXCEPT !.pc = "done",
                                        !.cards = Append(@, showStatusCard(
                                           "Repository connected successfully!", "success"))]]
                /\ UNCHANGED repoUrlInput
           ELSE ConnectCatch(c, f, status, AxiosError(status))
  /\ gen' = Reap(gen, IdleGen)
  /\ UNCHANGED << env, loadingHidden >>

\* the user edits the URL field
EditUrl(value) ==
  /\ ~repoUrlInput.disabled
  /\ value # repoUrlInput.value
  /\ repoUrlInput' = [repoUrlInput EXCEPT !.value = value]
  /\ conn' = Reap(conn, IdleConn)
  /\ gen' = Reap(gen, IdleGen)
  /\ UNCHANGED << env, currentRepo, connectRepoBtn, generateDocBtn, loadingHidden >>

\* ------------------------------------------------------------------------
\* getFilesFromDirectory
\* ------------------------------------------------------------------------

\* one activation of getFilesFromDirectory: the listing it iterates over, the
\* position of the for loop and its local array files
Frame(contents, currentPath) ==
  [contents |-> contents, currentPath |-> currentPath, idx |-> 1, files |-> << >>]

\* the for loop of the innermost activation moves to its next item
NextItem(stack) == [stack EXCEPT ![Len(stack)].idx = @ + 1]

\* an item for which the loop issues a request and awaits it
NeedsRequest(item) ==
  \/ item.type = "file" /\ IsSourceFile(item.name)
  \/ item.type = "dir"

\* the walk from a stack of activations up to its next await: done with the
\* files of the outermost activation, or stopped at an item whose request is
\* to be issued
RECURSIVE RunWalk(_)
RunWalk(stack) ==
  CHOOSE r \in
    {LET top == v[Len(v)]
     IN  IF top.idx > Len(top.contents)
           THEN IF Len(v) = 1
                  THEN [done |-> TRUE, stack |-> << >>, files |-> top.files]
                  ELSE \* return files; files.push(...dirFiles) in the caller
                       RunWalk(NextItem(
                         [SubSeq(v, 1, Len(v) - 1) EXCEPT
                            ![Len(v) - 1].files = @ \o top.files]))
         ELSE IF NeedsRequest(top.contents[top.idx])
           THEN [done |-> FALSE, stack |-> v, files |-> << >>]
         ELSE RunWalk(NextItem(v))
       : v \in {stack}} : TRUE

\* the item whose request the walk awaits
CurrentItem(stack) == stack[Len(stack)].contents[stack[Len(stack)].idx]

\* the body request failed and the error leaves the for loop
AfterFileLeavingLoop(stack, status) ==
  IF status = 200
    THEN NextItem([stack EXCEPT ![Len(stack)].files =
                     Append(@, [path |-> CurrentItem(stack).path,
                                content |-> Atob(RemoteContent(CurrentItem(stack).path))])])
    ELSE [stack EXCEPT ![Len(stack)].idx = Len(stack[Len(stack)].contents) + 1]

\* the stack after the body request of the current file settled
AfterFile(stack, status) ==
  IF status = 200
    THEN NextItem([stack EXCEPT ![Len(stack)].files =
                     Append(@, [path |-> CurrentItem(stack).path,
                                content |-> Atob(RemoteContent(CurrentItem(stack).path))])])
    ELSE NextItem(stack)

\* the listing of the directory is received and not walked
AfterDirectoryShallow(stack, status, listing) == NextItem(stack)

\* the stack after the listing request of the current directory settled
AfterDirectory(stack, status, listing) ==
  IF status = 200
    THEN Append(stack, Frame(listing[CurrentItem(stack).path], CurrentItem(stack).path))
    ELSE NextItem(stack)

\* ------------------------------------------------------------------------
\* generateDocumentation
\* ------------------------------------------------------------------------

NoKeyMessage == "OpenAI API key is not configured"
NoRepoMessage == "Please connect a repository first"
NoFilesMessage ==
  "No source files found. Please ensure the repository contains JavaScript/TypeScript files."

\* a request issued with the identity localStorage holds when it is issued
GenerateRequestRereading(f, fn, path) ==
  Request(fn, JsonParse(currentRepo).owner, JsonParse(currentRepo).repo, path)

\* a request of the generate flow with record f: its owner and repo, and the
\* project name of the prompt, are those of the constant repoInfo the flow
\* read at its start
GenerateRequest(f, fn, path) == Request(fn, f.owner, f.repo, path)

\* the catch block without its lines that reset the generate button
GenerateCatchWithoutReset(g, f, message) ==
  LET text == IF message # "" THEN message
              ELSE "Error generating documentation. Please try again."
  IN  /\ gen' = [Reap(gen, IdleGen) EXCEPT ![g] =
                   [f EXCEPT !.pc = "done", !.error = text, !.stack = << >>,
                             !.cards = Append(@, showStatusCard(text, "error"))]]
      /\ loadingHidden' = TRUE
      /\ UNCHANGED << generateDocBtn, connectRepoBtn, repoUrlInput >>

\* the catch and finally blocks of generateDocumentation, for the flow record
\* f of slot g
GenerateCatch(g, f, message) ==
  LET text == IF message # "" THEN message
              ELSE "Error generating documentation. Please try again."
  IN  /\ gen' = [Reap(gen, IdleGen) EXCEPT ![g] =
                   [f EXCEPT !.pc = "done", !.error = text, !.stack = << >>,
                             !.cards = Append(@, showStatusCard(text, "error"))]]
      /\ generateDocBtn' = [disabled |-> FALSE, innerHTML |-> "Generate Documentation"]
      /\ loadingHidden' = TRUE
      /\ UNCHANGED << connectRepoBtn, repoUrlInput >>

\* the flow awaits a further request: nothing of the page changes
GenerateAwait(g, f, pc, request) ==
  /\ gen' = [Reap(gen, IdleGen) EXCEPT ![g] =
               [f EXCEPT !.pc = pc, !.reqs = Append(@, request)]]
  /\ UNCHANGED << generateDocBtn, loadingHidden, connectRepoBtn, repoUrlInput >>

\* the test on sourceFiles.length left out
NothingSelectedUnchecked(sourceFiles) == FALSE

\* sourceFiles.length === 0
NothingSelected(sourceFiles) == Len(sourceFiles) = 0

\* getMainSourceFiles returned sourceFiles to generateDocumentation
AfterSelector(g, f, sourceFiles) ==
  LET r == [f EXCEPT !.returned = TRUE, !.selected = sourceFiles, !.stack = << >>]
  IN  IF NothingSelected(sourceFiles)
        THEN GenerateCatch(g, r, NoFilesMessage)
        ELSE GenerateAwait(g, r, "completion", GenerateRequest(r, "completions", ""))

\* the catch around the listing of 'src' throws the error on
RootFailureThrown(g, f, status) == GenerateCatch(g, f, AxiosError(status))

\* the catch around the listing of 'src': return allFiles, still empty
RootFailure(g, f, status) == AfterSelector(g, f, << >>)

\* the walk of flow record f goes on from the stack
ContinueWalk(g, f, stack) ==
  \E w \in {RunWalk(stack)} :
      IF w.done
        THEN \E sorted \in {SortFiles(w.files)} :
               AfterSelector(g, [f EXCEPT !.walked = w.files, !.sorted = sorted],
                             SliceFiles(sorted))
        ELSE GenerateAwait(g, [f EXCEPT !.stack = w.stack], "walk",
               GenerateRequest(f, IF CurrentItem(w.stack).type = "dir"
                                    THEN "getRepositoryContents" ELSE "getFileContent",
                               CurrentItem(w.stack).path))

\* a click on the generate button: generateDocumentation up to its await
GenerateClick(g) ==
  /\ ~generateDocBtn.disabled
  /\ Free(gen, g)
  /\ IF ~openaiKey THEN GenerateCatch(g, IdleGen, NoKeyMessage)
     ELSE IF currentRepo = NoItem THEN GenerateCatch(g, IdleGen, NoRepoMessage)
     ELSE LET repoInfo == JsonParse(currentRepo)
          IN  /\ gen' = [Reap(gen, IdleGen) EXCEPT ![g] =
                           [IdleGen EXCEPT !.pc = "meta", !.owner = repoInfo.owner,
                                           !.repo = repoInfo.repo,
                                           !.reqs = << Request("repos", repoInfo.owner,
                                                               repoInfo.repo, "") >>]]
              /\ generateDocBtn' = [disabled |-> TRUE,
                                    innerHTML |-> "Generating Documentation..."]
              /\ loadingHidden' = FALSE
              /\ UNCHANGED << connectRepoBtn, repoUrlInput >>
  /\ conn' = Reap(conn, IdleConn)
  /\ UNCHANGED << env, currentRepo >>

\* getRepositoryStructure: the metadata request settles
GenerateSettleMeta(g, status) ==
  /\ gen[g].pc = "meta"
  /\ LET f == [gen[g] EXCEPT !.reqs = Settled(@, IF status = 200 THEN "ok" ELSE "error")]
     IN  IF status = 200
           THEN GenerateAwait(g, f, "pkg",
                  GenerateRequest(f, "getFileContent", "package.json"))
           ELSE GenerateCatch(g, f, AxiosError(status))
  /\ conn' = Reap(conn, IdleConn)
  /\ UNCHANGED << env, currentRepo >>

\* the package.json request settles with no try around it: its failure
\* is thrown on to generateDocumentation
GenerateSettlePackageThrowing(g) ==
  /\ gen[g].pc = "pkg"
  /\ LET status == ContentsStatus("package.json")
         f == [gen[g] EXCEPT
                 !.reqs = Settled(@, IF status = 200 THEN "ok" ELSE "error"),
                 !.packageJson = IF status = 200 /\ remote.manifestParses
                                   THEN Atob(RemoteContent("package.json")) ELSE Null]
     IN  IF status = 200
           THEN GenerateAwait(g, f, "readme",
                  GenerateRequest(f, "getFileContent", "README.md"))
           ELSE GenerateCatch(g, f, AxiosError(status))
  /\ conn' = Reap(conn, IdleConn)
  /\ UNCHANGED << env, currentRepo >>

\* getRepositoryStructure: the package.json request settles and JSON.parse
\* takes its body
GenerateSettlePackage(g) ==
  /\ gen[g].pc = "pkg"
  /\ LET status == ContentsStatus("package.json")
         f == [gen[g] EXCEPT
                 !.reqs = Settled(@, IF status = 200 THEN "ok" ELSE "error"),
                 !.packageJson = IF status = 200 /\ remote.manifestParses
                                   THEN Atob(RemoteContent("package.json")) ELSE Null]
     IN  GenerateAwait(g, f, "readme",
           GenerateRequest(f, "getFileContent", "README.md"))
  /\ conn' = Reap(conn, IdleConn)
  /\ UNCHANGED << env, currentRepo >>

\* getRepositoryStructure: the README.md request settles, the structure is
\* returned and getMainSourceFiles requests the listing of 'src'
GenerateSettleReadme(g) ==
  /\ gen[g].pc = "readme"
  /\ LET status == ContentsStatus("README.md")
         f == [gen[g] EXCEPT
                 !.reqs = Settled(@, IF status = 200 THEN "ok" ELSE "error"),
                 !.description = "description of " \o gen[g].owner \o "/" \o gen[g].repo,
                 !.readme = IF status = 200
                              THEN Atob(RemoteContent("README.md")) ELSE Null]
     IN  GenerateAwait(g, f, "root",
           GenerateRequest(f, "getRepositoryContents", "src"))
  /\ conn' = Reap(conn, IdleConn)
  /\ UNCHANGED << env, currentRepo >>

\* getMainSourceFiles: the listing of 'src' settles
GenerateSettleRoot(g) ==
  /\ gen[g].pc = "root"
  /\ LET status == ContentsStatus("src")
         f == [gen[g] EXCEPT !.reqs = Settled(@, IF status = 200 THEN "ok" ELSE "error")]
     IN  IF status = 200
           THEN ContinueWalk(g, f, << Frame(remote.listing["src"], "src") >>)
           ELSE RootFailure(g, f, status)
  /\ conn' = Reap(conn, IdleConn)
  /\ UNCHANGED << env, currentRepo >>

\* getFilesFromDirectory: the listing of a subdirectory settles
GenerateSettleDirectory(g) ==
  /\ gen[g].pc = "walk"
  /\ CurrentItem(gen[g].stack).type = "dir"
  /\ LET status == ContentsStatus(CurrentItem(gen[g].stack).path)
         f == [gen[g] EXCEPT !.reqs = Settled(@, IF status = 200 THEN "ok" ELSE "error")]
     IN  ContinueWalk(g, f, AfterDirectory(f.stack, status, remote.listing))
  /\ conn' = Reap(conn, IdleConn)
  /\ UNCHANGED << env, currentRepo >>

\* getFilesFromDirectory: the body request of a file settles
GenerateSettleFile(g) ==
  /\ gen[g].pc = "walk"
  /\ CurrentItem(gen[g].stack).type = "file"
  /\ LET status == ContentsStatus(CurrentItem(gen[g].stack).path)
         f == [gen[g] EXCEPT !.reqs = Settled(@, IF status = 200 THEN "ok" ELSE "error")]
     IN  ContinueWalk(g, f, AfterFile(f.stack, status))
  /\ conn' = Reap(conn, IdleConn)
  /\ UNCHANGED << env, currentRepo >>

\* the outcomes of the completion request: a status other than 200, or 200
\* with a body whose choices array has a first element, is empty or is missing
CompletionOutcomes == {"choice", "empty", "missing", "error"}

\* the expression read with optional chaining and a default of ''
ReadFirstChoiceOptional(outcome, text) ==
  [thrown |-> FALSE, message |-> "", content |-> IF outcome = "choice" THEN text ELSE ""]

\* response.data.choices[0].message.content: the TypeError it throws, or the
\* content of the first choice
ReadFirstChoice(outcome, text) ==
  IF outcome = "empty"
    THEN [thrown |-> TRUE, content |-> "",
          message |-> "Cannot read properties of undefined (reading 'message')"]
  ELSE IF outcome = "missing"
    THEN [thrown |-> TRUE, content |-> "",
          message |-> "Cannot read properties of undefined (reading '0')"]
  ELSE [thrown |-> FALSE, content |-> text, message |-> ""]

\* the completion request settles, and a request that failed is sent once more
GenerateSettleCompletionRetrying(g, outcome) ==
  /\ gen[g].pc = "completion"
  /\ LET f == [gen[g] EXCEPT
                 !.reqs = Settled(@, IF outcome = "error" THEN "error" ELSE "ok"),
                 !.completion = outcome]
         read == ReadFirstChoice(outcome, "README of " \o f.owner \o "/" \o f.repo)
         sent == Cardinality({i \in 1..Len(f.reqs) : f.reqs[i].fn = "completions"})
     IN  IF outcome = "error" /\ sent < 2
           THEN GenerateAwait(g, f, "completion", GenerateRequest(f, "completions", ""))
         ELSE IF outcome = "error" THEN GenerateCatch(g, f, AxiosError(500))
         ELSE IF read.thrown THEN GenerateCatch(g, f, read.message)
         ELSE
           /\ gen' = [Reap(gen, IdleGen) EXCEPT ![g] =
                        [f EXCEPT !.pc = "done", !.documentation = read.content,
                                  !.cards = Append(@, showStatusCard(
                                     "Documentation generated successfully!", "success"))]]
           /\ generateDocBtn' = [disabled |-> FALSE, innerHTML |-> "Generate Documentation"]
           /\ connectRepoBtn' = [disabled |-> FALSE, innerHTML |-> "Connect Repository"]
           /\ repoUrlInput' = [repoUrlInput EXCEPT !.disabled = FALSE]
           /\ loadingHidden' = TRUE
  /\ conn' = Reap(conn, IdleConn)
  /\ UNCHANGED << env, currentRepo >>

\* the completion request settles
GenerateSettleCompletion(g, outcome) ==
  /\ gen[g].pc = "completion"
  /\ LET f == [gen[g] EXCEPT
                 !.reqs = Settled(@, IF outcome = "error" THEN "error" ELSE "ok"),
                 !.completion = outcome]
         read == ReadFirstChoice(outcome, "README of " \o f.owner \o "/" \o f.repo)
     IN  IF outcome = "error" THEN GenerateCatch(g, f, AxiosError(500))
         ELSE IF read.thrown THEN GenerateCatch(g, f, read.message)
         ELSE
           /\ gen' = [Reap(gen, IdleGen) EXCEPT ![g] =
                        [f EXCEPT !.pc = "done", !.documentation = read.content,
                                  !.cards = Append(@, showStatusCard(
                                     "Documentation generated successfully!", "success"))]]
           /\ generateDocBtn' = [disabled |-> FALSE, innerHTML |-> "Generate Documentation"]
           /\ connectRepoBtn' = [disabled |-> FALSE, innerHTML |-> "Connect Repository"]
           /\ repoUrlInput' = [repoUrlInput EXCEPT !.disabled = FALSE]
           /\ loadingHidden' = TRUE
  /\ conn' = Reap(conn, IdleConn)
  /\ UNCHANGED << env, currentRepo >>

\* ------------------------------------------------------------------------
\* Specifications
\* ------------------------------------------------------------------------

ConnectStep(urls) ==
  \/ \E c \in 1..MaxInFlight : ConnectClick(c)
  \/ \E c \in 1..MaxInFlight, status \in GithubStatuses : ConnectSettle(c, status)
  \/ \E value \in urls : EditUrl(value)

GenerateStep ==
  \/ \E g \in 1..MaxInFlight : GenerateClick(g)
  \/ \E g \in 1..MaxInFlight, status \in GithubStatuses : GenerateSettleMeta(g, status)
  \/ \E g \in 1..MaxInFlight : GenerateSettlePackage(g)
  \/ \E g \in 1..MaxInFlight : GenerateSettleReadme(g)
  \/ \E g \in 1..MaxInFlight : GenerateSettleRoot(g)
  \/ \E g \in 1..MaxInFlight : GenerateSettleDirectory(g)
  \/ \E g \in 1..MaxInFlight : GenerateSettleFile(g)
  \/ \E g \in 1..MaxInFlight, outcome \in CompletionOutcomes : GenerateSettleCompletion(g, outcome)

\* the page: both flows, every interleaving
Next == ConnectStep(PageUrls) \/ GenerateStep

Spec == Init /\ [][Next]_vars

\* the generate flow alone, on a page that holds a connected repository and
\* both credentials, over the selector's repositories
InitSelector ==
  /\ InitPage
  /\ githubToken
  /\ openaiKey
  /\ currentRepo # NoItem
  /\ remote \in SelectorRepositories

NextSelector == GenerateStep

SpecSelector == InitSelector /\ [][NextSelector]_vars

\* the connect flow alone, with the source-control credential, over a wider
\* set of strings in the URL field
InitConnect ==
  /\ InitPage
  /\ githubToken
  /\ remote \in PageRepositories

NextConnect == ConnectStep(ConnectUrls)

SpecConnect == InitConnect /\ [][NextConnect]_vars

\* ------------------------------------------------------------------------
\* Properties of the source file selector (under SpecSelector)
\* ------------------------------------------------------------------------

\* the slots of the generate flows
Slots == 1..MaxInFlight

\* the paths of a sequence of files
Paths(files) == {files[i].path : i \in 1..Len(files)}

\* the selector of flow g has run to its end
SelectorDone(g) == gen[g].pc \in {"completion", "done"} /\ gen[g].returned

\* the listing request of flow g for a path succeeded
Listed(g, path) ==
  \E i \in 1..Len(gen[g].reqs) :
    /\ gen[g].reqs[i].fn = "getRepositoryContents"
    /\ gen[g].reqs[i].path = path
    /\ gen[g].reqs[i].result = "ok"

\* the entries flow g met during its walk: the items of the listings it received
MetItems(g) ==
  UNION {{remote.listing[d][i] : i \in 1..Len(remote.listing[d])}
           : d \in {p \in DOMAIN remote.listing : Listed(g, p)}}

\* the position in the request log of flow g of the body request for a path
\* under 'src', 0 when there is none
BodyRequest(g, path) ==
  LET hits == {i \in 1..Len(gen[g].reqs) :
                 /\ gen[g].reqs[i].fn = "getFileContent"
                 /\ gen[g].reqs[i].path = path}
  IN  IF hits = {} THEN 0 ELSE CHOOSE i \in hits : TRUE

\* C1: the sequence the selector returns has at most 5 entries, whatever the
\* tree and whichever requests fail.
C1_AtMostFive == \A g \in Slots : Len(gen[g].selected) <= 5

\* a selector run that collected more than five files and returned five
C1_Witness ==
  \E g \in Slots :
    SelectorDone(g) /\ Len(gen[g].walked) > 5 /\ Len(gen[g].selected) = 5

\* the rank of a path: the place of the first of 'index', 'main', 'app' that
\* its lower-cased form contains, 4 when it contains none
FragmentRank(path) ==
  IF Includes(ToLowerCase(path), "index") THEN 1
  ELSE IF Includes(ToLowerCase(path), "main") THEN 2
  ELSE IF Includes(ToLowerCase(path), "app") THEN 3
  ELSE 4

\* C2: the sorted sequence holds the collected files, ordered by the rank of
\* the first priority fragment ('index', 'main', 'app') the lower-cased path
\* contains, files with no fragment last, and files of equal rank in the
\* order in which the walk fetched them.
C2_SortedByFragment ==
  \A g \in Slots :
    SelectorDone(g) =>
      LET sorted == gen[g].sorted
      IN  /\ Len(sorted) = Len(gen[g].walked)
          /\ Paths(sorted) = Paths(gen[g].walked)
          /\ \A i, j \in 1..Len(sorted) :
               i < j =>
                 /\ FragmentRank(sorted[i].path) <= FragmentRank(sorted[j].path)
                 /\ FragmentRank(sorted[i].path) = FragmentRank(sorted[j].path)
                      => BodyRequest(g, sorted[i].path) < BodyRequest(g, sorted[j].path)

\* a sort that moved files: two files with different fragments, two with none,
\* and an order that differs from the order of the walk
C2_Witness ==
  \E g \in Slots :
    /\ SelectorDone(g)
    /\ gen[g].sorted # gen[g].walked
    /\ \E i, j \in 1..Len(gen[g].sorted) :
         i < j /\ FragmentRank(gen[g].sorted[i].path) = 1
               /\ FragmentRank(gen[g].sorted[j].path) = 2
    /\ \E i, j \in 1..Len(gen[g].sorted) :
         i < j /\ FragmentRank(gen[g].sorted[i].path) = 4
               /\ FragmentRank(gen[g].sorted[j].path) = 4

\* a name the selector is to admit: one of the four extensions at its end and
\* none of the three excluded substrings
Admissible(name) ==
  /\ \E ext \in {".js", ".ts", ".jsx", ".tsx"} : EndsWith(name, ext)
  /\ \A part \in {".test.", ".spec.", ".config."} : ~Includes(name, part)

\* C3: a file entry met during the walk has its body requested if and only if
\* its name is admissible, and only admissible files met during the walk are
\* collected, sorted or returned.
C3_AdmittedIffFetched ==
  \A g \in Slots :
    /\ \A item \in MetItems(g) :
         (item.type = "file" /\ ~Admissible(item.name)) => BodyRequest(g, item.path) = 0
    /\ SelectorDone(g) =>
         /\ \A item \in MetItems(g) :
              (item.type = "file" /\ Admissible(item.name))
                => BodyRequest(g, item.path) # 0
         /\ Paths(gen[g].walked) \cup Paths(gen[g].selected) \subseteq
              {item.path : item \in {m \in MetItems(g) :
                                       m.type = "file" /\ Admissible(m.name)}}

\* a walk that met a file it fetched and a file with an excluded substring
C3_Witness ==
  \E g \in Slots :
    /\ SelectorDone(g)
    /\ \E item \in MetItems(g) :
         item.type = "file" /\ Admissible(item.name) /\ BodyRequest(g, item.path) # 0
    /\ \E item \in MetItems(g) :
         item.type = "file" /\ Includes(item.name, ".config.")
                            /\ EndsWith(item.name, ".js")

\* the listing request of flow g for 'src' failed
RootFailed(g) ==
  \E i \in 1..Len(gen[g].reqs) :
    /\ gen[g].reqs[i].fn = "getRepositoryContents"
    /\ gen[g].reqs[i].path = "src"
    /\ gen[g].reqs[i].result = "error"

\* C4: when the listing of 'src' fails the selector returns the empty
\* sequence instead of failing, and the failed request is the last one.
C4_RootFailureReturnsEmpty ==
  \A g \in Slots :
    RootFailed(g) =>
      /\ gen[g].returned
      /\ gen[g].selected = << >>
      /\ gen[g].error = NoFilesMessage
      /\ gen[g].reqs[Len(gen[g].reqs)].path = "src"
      /\ gen[g].reqs[Len(gen[g].reqs)].result = "error"

\* a flow whose listing of 'src' failed
C4_Witness == \E g \in Slots : RootFailed(g) /\ gen[g].pc = "done"

\* the admissible files under a directory whose requests, and the listing
\* requests of the directories above them, succeed
RECURSIVE FetchableUnder(_)
FetchableUnder(dir) ==
  UNION {LET item == remote.listing[dir][i]
         IN  IF item.path \in remote.broken THEN {}
             ELSE IF item.type = "file" /\ Admissible(item.name) THEN {item.path}
             ELSE IF item.type = "dir" THEN FetchableUnder(item.path)
             ELSE {}
           : i \in 1..Len(remote.listing[dir])}

\* C5: when the listing of 'src' succeeds, failures below it do not make the
\* selector fail: it returns, and what it collected is exactly the admissible
\* files outside the failed directories whose own request succeeded.
C5_PartialFailureTolerated ==
  \A g \in Slots :
    (Listed(g, "src") /\ gen[g].pc \in {"completion", "done"}) =>
      /\ gen[g].returned
      /\ Paths(gen[g].walked) = FetchableUnder("src")
      /\ Len(gen[g].walked) = Cardinality(FetchableUnder("src"))

\* a walk in which a file request and a directory request failed and a file
\* fetched after both failures was collected
C5_Witness ==
  \E g \in Slots :
    /\ SelectorDone(g)
    /\ \E i, j, k \in 1..Len(gen[g].reqs) :
         /\ i < k /\ j < k
         /\ gen[g].reqs[i].fn = "getFileContent" /\ gen[g].reqs[i].result = "error"
         /\ gen[g].reqs[i].path \notin {"package.json", "README.md"}
         /\ gen[g].reqs[j].fn = "getRepositoryContents" /\ gen[g].reqs[j].result = "error"
         /\ gen[g].reqs[k].fn = "getFileContent" /\ gen[g].reqs[k].result = "ok"
         /\ gen[g].reqs[k].path \in Paths(gen[g].walked)

\* ------------------------------------------------------------------------
\* Properties of the connect flow and of the cached identity
\* ------------------------------------------------------------------------

ConnSlots == 1..MaxInFlight

\* the connect flow of slot c has just ended in its success branch
ConnectSucceeded(c) == conn[c].pc = "done" /\ conn[c].error = ""

\* the identity the program parses from a URL, as localStorage holds it
ParsedItem(url) ==
  JsonStringify([owner |-> RepoUrlMatch(url).owner, repo |-> RepoUrlMatch(url).repo])

\* C6: right after a connect flow whose existence request returned 200, the
\* cached identity is the owner and repo parsed from the URL the field held
\* when the flow started.
C6_SuccessCachesParsedIdentity ==
  \A c \in ConnSlots : ConnectSucceeded(c) => currentRepo = ParsedItem(conn[c].url)

\* a connect flow that succeeded after the URL field had been edited to
\* another URL while the flow was in flight
C6_Witness ==
  \E c \in ConnSlots :
    /\ ConnectSucceeded(c)
    /\ repoUrlInput.value # conn[c].url
    /\ RepoUrlMatch(repoUrlInput.value).found
    /\ currentRepo = ParsedItem(conn[c].url)

\* C7: the cached identity changes only in the step in which a connect flow
\* ends in its success branch; a failing connect flow and every step of a
\* generate flow leave it as it was.
C7_OnlySuccessfulConnectWrites ==
  [][currentRepo' # currentRepo =>
       \E c \in ConnSlots :
         conn[c].pc = "await" /\ conn'[c].pc = "done" /\ conn'[c].error = ""]_vars

\* a connect flow for another repository that failed on its request and left
\* the identity cached before it
C7_Witness ==
  \E c \in ConnSlots :
    /\ conn[c].pc = "done"
    /\ conn[c].error # ""
    /\ conn[c].reqs # << >>
    /\ currentRepo # NoItem
    /\ currentRepo # ParsedItem(conn[c].url)

\* a string without a leading scheme
WithoutScheme(url) ==
  IF Len(url) >= 8 /\ SubSeq(url, 1, 8) = "https://" THEN SubSeq(url, 9, Len(url))
  ELSE IF Len(url) >= 7 /\ SubSeq(url, 1, 7) = "http://" THEN SubSeq(url, 8, Len(url))
  ELSE url

\* the pieces of a string between its slashes
RECURSIVE SplitSlash(_)
SplitSlash(str) ==
  IF RunEnd(str, 1) > Len(str) THEN << str >>
  ELSE << SubSeq(str, 1, RunEnd(str, 1) - 1) >>
         \o SplitSlash(SubSeq(str, RunEnd(str, 1) + 1, Len(str)))

\* host/<owner>/<repo>, optionally followed by more path segments, the host
\* being the source-control service's
HasRepoShape(url) ==
  LET parts == SplitSlash(WithoutScheme(url))
  IN  /\ Len(parts) >= 3
      /\ parts[1] = "github.com"
      /\ parts[2] # ""
      /\ parts[3] # ""

\* C8: the connect flow takes the first two path segments after the host of
\* every string of the shape host/<owner>/<repo>[/...] as owner and repo, and
\* ends every other string with an input error before any request.
C8_ExtractionFollowsShape ==
  \A c \in ConnSlots :
    conn[c].pc # "idle" =>
      IF HasRepoShape(conn[c].url)
        THEN /\ conn[c].reqs # << >>
             /\ conn[c].owner = SplitSlash(WithoutScheme(conn[c].url))[2]
             /\ conn[c].repo = SplitSlash(WithoutScheme(conn[c].url))[3]
        ELSE /\ conn[c].pc = "done"
             /\ conn[c].reqs = << >>
             /\ conn[c].error \in
                  {ConnectErrorMessage(0, "Please enter a repository URL"),
                   ConnectErrorMessage(0, "Invalid GitHub repository URL")}

\* ------------------------------------------------------------------------
\* Properties of the generate flow
\* ------------------------------------------------------------------------

\* flow g sent a request to the completion endpoint
CompletionRequested(g) ==
  \E i \in 1..Len(gen[g].reqs) : gen[g].reqs[i].fn = "completions"

\* C9: a generate flow whose selector returned no file ends with the error
\* 'No source files found...', shown in one error notification, and sends no
\* request to the completion endpoint.
C9_EmptySelectionFailsBeforeCompletion ==
  \A g \in Slots :
    (gen[g].returned /\ gen[g].selected = << >>) =>
      /\ gen[g].pc = "done"
      /\ gen[g].error = NoFilesMessage
      /\ gen[g].cards = << showStatusCard(NoFilesMessage, "error") >>
      /\ ~CompletionRequested(g)

\* a flow whose listing of 'src' succeeded and whose walk collected nothing
C9_Witness ==
  \E g \in Slots :
    /\ gen[g].returned
    /\ gen[g].selected = << >>
    /\ Listed(g, "src")
    /\ gen[g].pc = "done"

\* a request to the source-control service
SourceControlRequest(request) ==
  request.fn \in {"repos", "getFileContent", "getRepositoryContents"}

\* C10: no flow sends a request whose credential is missing: without the
\* source-control credential neither flow sends a source-control request,
\* without the completion credential no generate flow sends a completion
\* request, and a flow that ends then ends with a configuration error.
C10_NoRequestWithoutCredential ==
  /\ ~githubToken =>
       /\ \A c \in ConnSlots :
            /\ \A i \in 1..Len(conn[c].reqs) : ~SourceControlRequest(conn[c].reqs[i])
            /\ conn[c].pc = "done" =>
                 conn[c].error = ConnectErrorMessage(0, "GitHub token is not configured")
       /\ \A g \in Slots :
            \A i \in 1..Len(gen[g].reqs) : ~SourceControlRequest(gen[g].reqs[i])
  /\ ~openaiKey =>
       \A g \in Slots :
         /\ ~CompletionRequested(g)
         /\ gen[g].pc = "done" => gen[g].error = NoKeyMessage

\* the body of the completion response of flow g had no first choice
NoFirstChoice(g) == gen[g].completion \in {"empty", "missing"}

\* the card the handler of 'unhandledrejection' shows
UnhandledCard ==
  showStatusCard("An unexpected error occurred. Please check the console for details.",
                 "error")

\* C11: a generate flow whose completion response has status 200 and an
\* empty or missing choices array ends in its catch block: one error
\* notification with the message of the error, no unhandled rejection, no
\* document and no success notification; the button and the overlay are reset.
C11_NoChoiceEndsInError ==
  \A g \in Slots :
    NoFirstChoice(g) =>
      /\ gen[g].pc = "done"
      /\ gen[g].reqs[Len(gen[g].reqs)].fn = "completions"
      /\ gen[g].reqs[Len(gen[g].reqs)].result = "ok"
      /\ gen[g].error # ""
      /\ gen[g].cards = << showStatusCard(gen[g].error, "error") >>
      /\ gen[g].cards[1] # UnhandledCard
      /\ gen[g].documentation = Null

\* a flow that ended on an empty choices array
C11_Witness ==
  \E g \in Slots :
    /\ gen[g].completion = "empty"
    /\ gen[g].pc = "done"
    /\ Len(gen[g].selected) > 0

\* ------------------------------------------------------------------------
\* Properties of the two flows together (under Spec)
\* ------------------------------------------------------------------------

\* C12: at every moment at most one connect flow and at most one generate
\* flow are in flight, whatever the order of clicks and of settled requests.
C12_OneFlowOfEachKind == InFlight(conn) <= 1 /\ InFlight(gen) <= 1

\* C13: when a connect flow ends in failure the connect button and the URL
\* field are enabled, when a generate flow ends in failure the generate
\* button is enabled, and the flow has shown exactly one notification, an
\* error notification with the message of the failure.
C13_FailureRestoresControl ==
  /\ \A c \in ConnSlots :
       (conn[c].pc = "done" /\ conn[c].error # "") =>
         /\ ~connectRepoBtn.disabled
         /\ ~repoUrlInput.disabled
         /\ conn[c].cards = << showStatusCard(conn[c].error, "error") >>
  /\ \A g \in Slots :
       (gen[g].pc = "done" /\ gen[g].error # "") =>
         /\ ~generateDocBtn.disabled
         /\ gen[g].cards = << showStatusCard(gen[g].error, "error") >>

\* a generate flow that failed on a request while a connect flow was in flight
C13_Witness ==
  \E g \in Slots, c \in ConnSlots :
    /\ gen[g].pc = "done"
    /\ gen[g].error # ""
    /\ gen[g].reqs # << >>
    /\ gen[g].reqs[Len(gen[g].reqs)].result = "error"
    /\ conn[c].pc = "await"

\* ------------------------------------------------------------------------
\* Properties of the structure fetch and of the order of requests
\* (under SpecSelector)
\* ------------------------------------------------------------------------

\* getRepositoryStructure of flow g returned: getMainSourceFiles has issued
\* its request for 'src'
StructureReturned(g) == Len(gen[g].reqs) >= 4

\* flow g ended inside getRepositoryStructure
StructureFailed(g) == gen[g].pc = "done" /\ ~StructureReturned(g)

\* C14: the structure fetch issues the metadata request first and fails if
\* and only if that request fails; a failed package.json request, a body of
\* package.json that does not parse and a failed README.md request each leave
\* their field null, and the fetch goes on and returns.
C14_OnlyMetadataIsMandatory ==
  \A g \in Slots :
    LET reqs == gen[g].reqs
    IN  gen[g].pc # "idle" =>
          /\ reqs[1].fn = "repos"
          /\ StructureFailed(g) <=> reqs[1].result = "error"
          /\ reqs[1].result # "ok" => Len(reqs) = 1
          /\ Len(reqs) >= 2 => reqs[2].fn = "getFileContent" /\ reqs[2].path = "package.json"
          /\ Len(reqs) >= 3 => reqs[3].fn = "getFileContent" /\ reqs[3].path = "README.md"
          /\ StructureReturned(g) =>
               /\ reqs[4].fn = "getRepositoryContents" /\ reqs[4].path = "src"
               /\ gen[g].packageJson =
                    (IF reqs[2].result = "ok" /\ remote.manifestParses
                       THEN Atob(RemoteContent("package.json")) ELSE Null)
               /\ gen[g].readme =
                    (IF reqs[3].result = "ok"
                       THEN Atob(RemoteContent("README.md")) ELSE Null)

\* a structure fetch that returned although the body of package.json did not
\* parse and the README.md request failed
C14_Witness ==
  \E g \in Slots :
    /\ StructureReturned(g)
    /\ gen[g].reqs[2].result = "ok"
    /\ ~remote.manifestParses
    /\ gen[g].packageJson = Null
    /\ gen[g].reqs[3].result = "error"
    /\ gen[g].readme = Null

\* the positions in the request log of flow g of its completion requests
CompletionRequests(g) ==
  {i \in 1..Len(gen[g].reqs) : gen[g].reqs[i].fn = "completions"}

\* C15: a generate flow sends at most one completion request; it sends it
\* after the structure fetch returned and the selector returned one file or
\* more, every earlier request being settled; when the request fails the flow
\* ends without another.
C15_OneCompletionRequest ==
  \A g \in Slots :
    /\ Cardinality(CompletionRequests(g)) <= 1
    /\ \A i \in CompletionRequests(g) :
         /\ i = Len(gen[g].reqs)
         /\ StructureReturned(g)
         /\ gen[g].returned
         /\ Len(gen[g].selected) > 0
         /\ \A j \in 1..(i - 1) : gen[g].reqs[j].result # "pending"
         /\ gen[g].reqs[i].result = "pending" <=> gen[g].pc = "completion"
         /\ gen[g].reqs[i].result # "pending" => gen[g].pc = "done"

\* a flow that ended on the failure of its one completion request
C15_Witness ==
  \E g \in Slots :
    /\ gen[g].pc = "done"
    /\ CompletionRequests(g) # {}
    /\ gen[g].reqs[Len(gen[g].reqs)].result = "error"
    /\ gen[g].error = AxiosError(500)

\* a sequence s is the beginning of a sequence t
IsPrefix(s, t) == Len(s) <= Len(t) /\ SubSeq(t, 1, Len(s)) = s

\* The requests of a depth-first traversal below a directory whose listing
\* was received, item by item: for an admissible file its body request, for a
\* directory its listing request followed, when the listing is received, by
\* the requests of the traversal below it.
RECURSIVE DepthFirstFrom(_, _)
DepthFirstFrom(dir, i) ==
  IF i > Len(remote.listing[dir]) THEN << >>
  ELSE LET item == remote.listing[dir][i]
           here == IF item.type = "file" /\ Admissible(item.name)
                     THEN << << "getFileContent", item.path >> >>
                   ELSE IF item.type = "dir"
                     THEN << << "getRepositoryContents", item.path >> >>
                            \o (IF item.path \in remote.broken THEN << >>
                                ELSE DepthFirstFrom(item.path, 1))
                   ELSE << >>
       IN  here \o DepthFirstFrom(dir, i + 1)

\* the requests of a depth-first traversal from 'src'
DepthFirst ==
  << << "getRepositoryContents", "src" >> >>
    \o (IF "src" \in remote.broken THEN << >> ELSE DepthFirstFrom("src", 1))

\* the requests flow g issued inside getMainSourceFiles, in order
SelectorRequests(g) ==
  LET reqs == gen[g].reqs
      last == IF CompletionRequests(g) # {} THEN Len(reqs) - 1 ELSE Len(reqs)
  IN  [i \in 1..(last - 3) |-> << reqs[i + 3].fn, reqs[i + 3].path >>]

\* the requests of flow g that have not settled
Outstanding(g) == {i \in 1..Len(gen[g].reqs) : gen[g].reqs[i].result = "pending"}

\* flow g is inside getMainSourceFiles
InSelector(g) == gen[g].pc \in {"root", "walk"}

\* the safety part of C16
OneAtATimeDepthFirst ==
  \A g \in Slots :
    /\ Cardinality(Outstanding(g)) <= 1
    /\ Outstanding(g) \subseteq {Len(gen[g].reqs)}
    /\ StructureReturned(g) =>
         /\ IsPrefix(SelectorRequests(g), DepthFirst)
         /\ SelectorDone(g) => SelectorRequests(g) = DepthFirst

\* the fairness the walk is checked under: the outstanding request of every
\* flow that is inside the selector settles
SelectorFairness ==
  \A g \in 1..MaxInFlight :
    WF_vars(GenerateSettleRoot(g) \/ GenerateSettleDirectory(g) \/ GenerateSettleFile(g))

\* the repositories the walk is followed to its end on: the nested tree under
\* every pattern of failures of the requests its walk can issue, and the wide
\* tree with and without its subdirectory
WalkRepositories ==
  {Repository(TreeNested, broken, TRUE) :
     broken \in SUBSET {"src", "src/app", "src/app/deep", "src/empty", "src/App.JS",
                        "src/zeta.ts", "src/app/util.js", "src/app/deep/Maintain.tsx"}}
  \cup {Repository(TreeMany, broken, TRUE) : broken \in {{}, {"src/lib"}}}

InitWalk ==
  /\ InitPage
  /\ githubToken
  /\ openaiKey
  /\ currentRepo # NoItem
  /\ remote \in WalkRepositories

\* the generate flow alone, every outstanding request of the selector settling
SpecWalk == InitWalk /\ [][NextSelector]_vars /\ SelectorFairness

\* C16: a run of the selector has at most one request outstanding, its
\* requests are those of a depth-first traversal of the listings, in that
\* order, one listing request for each directory reached and one body request
\* for each admitted file, and the run ends once every request settles.
C16_SequentialDepthFirstWalk ==
  /\ []OneAtATimeDepthFirst
  /\ \A g \in Slots : InSelector(g) ~> SelectorDone(g)

\* a finished walk that went down two levels and came back: a request for an
\* item of 'src' after the requests below a directory below 'src'
C16_Witness ==
  \E g \in Slots :
    /\ SelectorDone(g)
    /\ SelectorRequests(g) = DepthFirst
    /\ \E i, j, k \in 1..Len(DepthFirst) :
         /\ i < j /\ j < k
         /\ DepthFirst[i] = << "getRepositoryContents", "src/app" >>
         /\ DepthFirst[j] = << "getFileContent", "src/app/deep/Maintain.tsx" >>
         /\ DepthFirst[k] = << "getFileContent", "src/zeta.ts" >>

\* C17: whenever the generate button is enabled or a generate flow is in
\* flight the item 'currentRepo' is present, and no generate flow ends with
\* 'Please connect a repository first'.
C17_GenerateImpliesIdentity ==
  /\ (~generateDocBtn.disabled \/ InFlight(gen) > 0) => currentRepo # NoItem
  /\ \A g \in Slots : gen[g].error # NoRepoMessage

\* a generate flow in flight on the identity a connect flow of this page stored
C17_Witness ==
  \E g \in Slots :
    /\ gen[g].pc = "meta"
    /\ currentRepo = JsonStringify([owner |-> "acme", repo |-> "web"])
    /\ gen[g].owner = "acme"

\* C18: the loading overlay is visible exactly while a generate flow is in
\* flight, and the generate button is disabled while one is.
C18_OverlayTracksGenerate ==
  /\ ~loadingHidden <=> InFlight(gen) > 0
  /\ InFlight(gen) > 0 => generateDocBtn.disabled

\* a generate flow ends in its success branch in this step
GenerateSucceeds ==
  \E g \in Slots :
    gen[g].pc = "completion" /\ gen'[g].pc = "done" /\ gen'[g].error = ""

\* the connect button shows 'Connected' and is disabled: a connect flow has
\* succeeded and the button has not been reset since
ConnectedAndLocked == connectRepoBtn.innerHTML = "Connected" /\ connectRepoBtn.disabled

\* C19: a connect flow that succeeds leaves the connect button and the URL
\* field disabled, and from then on they are enabled again only by the step
\* in which a generate flow ends successfully; no connect flow starts before.
C19_LockedUntilGenerated ==
  /\ [](\A c \in ConnSlots :
          ConnectSucceeded(c) => connectRepoBtn.disabled /\ repoUrlInput.disabled)
  /\ [][(ConnectedAndLocked /\ (~connectRepoBtn'.disabled \/ ~repoUrlInput'.disabled))
          => GenerateSucceeds]_vars

\* C20: every request of a generate flow, the completion request with the
\* project name of its prompt included, carries the identity the item
\* 'currentRepo' held when the flow started, whatever a connect flow stores
\* while the generate flow is in flight.
C20_IdentityReadOnce ==
  /\ [](\A g \in Slots :
          \A i \in 1..Len(gen[g].reqs) :
            /\ gen[g].reqs[i].owner = gen[g].reqs[1].owner
            /\ gen[g].reqs[i].repo = gen[g].reqs[1].repo)
  /\ [][\A g \in Slots :
          (gen[g].pc \in {"idle", "done"} /\ gen'[g].pc = "meta") =>
            << gen'[g].reqs[1].owner, gen'[g].reqs[1].repo >> = currentRepo]_vars

\* a generate flow that went on to its completion request on the identity it
\* started with after a connect flow had stored another one
C20_Witness ==
  \E g \in Slots :
    /\ gen[g].pc = "completion"
    /\ gen[g].reqs[1].owner = "octo"
    /\ gen[g].reqs[Len(gen[g].reqs)].owner = "octo"
    /\ currentRepo = JsonStringify([owner |-> "acme", repo |-> "web"])

====
